---------------------------- MODULE Spec2Model ----------------------------
(***************************************************************************)
(* Model of the knowledge-distillation criterion of the fairseq extension  *)
(* pack: KDLabelSmoothedCrossEntropyCriterion (history queues, the four    *)
(* token-selection strategies of compute_loss, the epoch-gated             *)
(* representation terms and the logging dictionary of forward).            *)
(*                                                                         *)
(* Numbers.  Tensors of reals are sequences of integers.  A per-token loss *)
(* is an integer count of units; a weight in [0,1] (alpha, kd_rate) is an  *)
(* integer count of thousandths (Den == 1000), so a blended loss is        *)
(* carried multiplied by Den.  Python's None is the integer None.          *)
(***************************************************************************)
EXTENDS Integers, Sequences, FiniteSets, TLC

VARIABLES
    config,   \* the configuration the criterion was constructed from
    cfg,      \* the criterion's fields set by __init__ (self.*)
    queue,    \* self.queue
    pushed,   \* how many values were ever pushed, per queue
    largest,  \* size of the largest tensor a push operation was handed
    sample,   \* the batch of the last forward call
    out,      \* what the last forward call returned or raised
    calls,    \* forward calls and direct pushes so far
    arch,     \* the args object an architecture preset was invoked on
    task,     \* the KDTranslationTask: its dictionary and src_lang_ids
    reduced   \* the logging outputs handed to reduce_metrics, and its log

vars == <<config, cfg, queue, pushed, largest, sample, out, calls, arch, task,
          reduced>>

-----------------------------------------------------------------------------
(* Bounds of the model *)

\* forward calls (or direct pushes) in one behaviour
MaxCalls == 2
\* positions (sentences x target length) of a generated batch, and the
\* largest tensor pushed directly
MaxTokens == 3
\* sentences of a generated batch
MaxSent == 2
\* raw per-token student NLL values are 1..MaxNll
MaxNll == 2
\* the kd_queue_size the criterion is constructed with
QueueSize == 2
MaxSymbols == 3
MaxLogs == 2

-----------------------------------------------------------------------------
(* Values of the program *)

None == -1
Den == 1000

padding_idx == 1
LangA == 4
LangB == 5
Word == 6

\* task.src_lang_ids: the ids of the source dictionary's "__src__" markers
src_lang_ids == <<LangA, LangB>>

Range(s) == {s[i] : i \in DOMAIN s}

RECURSIVE SumSeq(_)
SumSeq(s) == IF s = <<>> THEN 0 ELSE Head(s) + SumSeq(Tail(s))

RECURSIVE SumOver(_, _)
\* the sum of f[i] over the finite set S of indices
SumOver(f, S) ==
    IF S = {} THEN 0
    ELSE LET i == CHOOSE x \in S : TRUE IN f[i] + SumOver(f, S \ {i})

\* Python's s[n:]
SliceFrom(s, n) == SubSeq(s, n + 1, Len(s))

-----------------------------------------------------------------------------
(* The history queues *)

\* __init__: one empty queue per source language under global_multi_level,
\* one empty queue otherwise
InitQueue(kd_strategy) ==
    IF kd_strategy = "global_multi_level"
    THEN [id \in Range(src_lang_ids) |-> <<>>]
    ELSE <<>>

\* push_to_FIFO_queue with a seeded fault: the newest entries are evicted
push_to_FIFO_queue_evict_newest(q, tensor, kd_queue_size) ==
    LET tensor_sz == Len(tensor)
        current_queue_sz == Len(q)
        q1 == IF tensor_sz + current_queue_sz >= kd_queue_size
              THEN SubSeq(q, 1, current_queue_sz - tensor_sz)
              ELSE q
    IN  q1 \o tensor

\* push_to_FIFO_queue with a seeded fault: the queue is cut to its last
\* kd_queue_size entries after the tensor is appended
push_to_FIFO_queue_capped(q, tensor, kd_queue_size) ==
    LET all == q \o tensor
    IN  IF Len(all) > kd_queue_size
        THEN SliceFrom(all, Len(all) - kd_queue_size)
        ELSE all

\* push_to_FIFO_queue with a seeded fault: only the overflow is evicted
push_to_FIFO_queue_evict_overflow(q, tensor, kd_queue_size) ==
    LET tensor_sz == Len(tensor)
        current_queue_sz == Len(q)
        q1 == IF tensor_sz + current_queue_sz >= kd_queue_size
              THEN SliceFrom(q, tensor_sz + current_queue_sz - kd_queue_size)
              ELSE q
    IN  q1 \o tensor

push_to_FIFO_queue(q, tensor, kd_queue_size) ==
    LET tensor_sz == Len(tensor)
        current_queue_sz == Len(q)
        q1 == IF tensor_sz + current_queue_sz >= kd_queue_size
              THEN SliceFrom(q, tensor_sz)
              ELSE q
    IN  q1 \o tensor

\* push_to_lang_FIFO_queue with a seeded fault: the tensor is pushed to the
\* queue of every language
push_to_lang_FIFO_queue_all(Q, id, tensor, kd_queue_size) ==
    [k \in DOMAIN Q |-> push_to_FIFO_queue(Q[k], tensor, kd_queue_size)]

\* defined for id in DOMAIN Q; the caller raises KeyError otherwise
push_to_lang_FIFO_queue(Q, id, tensor, kd_queue_size) ==
    LET tensor_sz == Len(tensor)
        current_queue_sz == Len(Q[id])
        q1 == IF tensor_sz + current_queue_sz >= kd_queue_size
              THEN SliceFrom(Q[id], tensor_sz)
              ELSE Q[id]
    IN  [Q EXCEPT ![id] = q1 \o tensor]

-----------------------------------------------------------------------------
(* Batches *)

\* a target row of length T: raw student NLLs 1..MaxNll, then padding (0)
TargetRows(T) ==
    {r \in [1..T -> 0..MaxNll] :
        /\ r[1] # 0
        /\ \A i \in 1..(T - 1) : r[i] = 0 => r[i + 1] = 0}

\* source rows: a language marker first, a left-padded row, a row without
\* a marker
SrcRows == {<<LangA, Word>>, <<padding_idx, LangB>>, <<Word, Word>>}

Shapes ==
    {sh \in (1..MaxSent) \X (1..MaxTokens) : sh[1] * sh[2] <= MaxTokens}

\* one sentence, or sentences of one position
FlatShapes == {sh \in Shapes : sh[1] = 1 \/ sh[2] = 1}

RECURSIVE Pow2(_)
Pow2(n) == IF n = 0 THEN 1 ELSE 2 * Pow2(n - 1)

DistinctDist == [attn |-> 3, self |-> 5, cross |-> 7, value |-> 11, regression |-> 13]
ZeroDist == [attn |-> 0, self |-> 0, cross |-> 0, value |-> 0, regression |-> 0]

\* The batch of B target rows of length T.  Position i carries the raw
\* student NLL of its row (a padding position carries a raw value too, which
\* the masks must zero), the distillation term 2^(i-1), so that a sum of
\* distillation terms names the positions summed, and the teacher NLL tn.
MkSample(B, T, rows, src, tn, ep) ==
    [bsz |-> B,
     src_tokens |-> src,
     tokens |-> [i \in 1..(B * T) |->
                   LET v == rows[((i - 1) \div T) + 1][((i - 1) % T) + 1]
                   IN  [pad |-> v = 0,
                        nll |-> IF v = 0 THEN MaxNll ELSE v,
                        tnll |-> tn,
                        kd |-> Pow2(i - 1)]],
     teacher_output |-> TRUE,
     teacher_lprobs |-> TRUE,
     epoch |-> ep,
     \* which maps the model and the batch carry
     attn |-> TRUE,
     teacher_attn |-> TRUE,
     teacher_decoder_attn |-> TRUE,
     value_maps |-> TRUE,
     regressed_maps |-> TRUE,
     \* the distances F.mse_loss / F.kl_div find between student and teacher
     dist |-> DistinctDist,
     \* value_relation.shape[2:]
     value_shape |-> <<2, 3>>]

\* batches whose source rows all carry the marker of LangA
PlainSamples ==
    UNION {{MkSample(sh[1], sh[2], rows,
                     [b \in 1..sh[1] |-> <<LangA, Word>>], 1, None) :
                rows \in [1..sh[1] -> TargetRows(sh[2])]} : sh \in FlatShapes}

NoSample == MkSample(1, 1, <<<<1>>>>, <<<<LangA, Word>>>>, 1, None)

SampleLen(s) == Len(s.tokens) \div s.bsz

-----------------------------------------------------------------------------
(* Quantities: a number of loss units times the symbolic factors the       *)
(* representation terms carry                                              *)

\* A scalar tensor is a sum: a set of summands, none of value 0.  A summand
\* is value * weight * rambda^rambda * decay^decay_exp * mul / div, where
\* weight is "1", "w" (weight_mean) or "1-w".
Plain(v) ==
    [value |-> v, weight |-> "1", rambda |-> 0, decay_exp |-> 0,
     div |-> 1, mul |-> 1]

Summand(term, q) == [term |-> term, q |-> q]

\* the number v
Num(term, v) == IF v = 0 THEN {} ELSE {Summand(term, Plain(v))}

Zero == {}

\* the number a sum of plain summands stands for
ValueOf(sum) ==
    LET terms == {x.term : x \in sum}
        val == [t \in terms |-> (CHOOSE x \in sum : x.term = t).q.value]
    IN  SumOver(val, terms)

IsPlain(sum) == \A x \in sum : x.q = Plain(x.q.value)

\* dict.get(key, default)
Get(d, key, default) == IF key \in DOMAIN d THEN d[key] ELSE default

NoExtra == [k \in {} |-> Zero]

\* what compute_loss hands back: status "ok" with the loss and extra, or
\* the exception raised; st = [queue, pushed] is self.queue, with the count
\* of the values pushed, when it ends
Raise(exc, st) ==
    [status |-> exc, st |-> st, loss |-> Zero, extra |-> NoExtra, kd_sum |-> 0]

\* kd_sum is the sum of the local tensor kd_loss when the strategy ends
Return(st, loss, extra, kd_sum) ==
    [status |-> "ok", st |-> st, loss |-> loss, extra |-> extra, kd_sum |-> kd_sum]

-----------------------------------------------------------------------------
(* compute_loss: the per-token losses *)

\* label_smoothed_nll_loss(..., reduce=False): the second result, the NLL
\* per position with padding positions zeroed
nll_loss_of(tokens) ==
    [i \in DOMAIN tokens |-> IF tokens[i].pad THEN 0 ELSE tokens[i].nll]

nll_loss_teacher_of(tokens) ==
    [i \in DOMAIN tokens |-> IF tokens[i].pad THEN 0 ELSE tokens[i].tnll]

\* the first result: (1 - eps - eps_i) * nll + eps_i * smooth, with the
\* label_smoothing of the configuration's default, 0, so eps_i = 0
golden_loss_of(tokens) ==
    LET epsilon == 0
        eps_i == 0
        nll == nll_loss_of(tokens)
    IN  [i \in DOMAIN tokens |-> (1 - epsilon - eps_i) * nll[i] + eps_i * 0]

\* F.cross_entropy(student_logits_T, teacher_probs_T, reduction='none')
\* followed by kd_loss.masked_fill_(pad_mask, 0)
kd_loss_of(tokens) ==
    [i \in DOMAIN tokens |-> IF tokens[i].pad THEN 0 ELSE tokens[i].kd]

\* math.ceil(n * rate), rate in thousandths
Ceil(n, rate) == (n * rate + Den - 1) \div Den

\* tensor.topk(k, largest=True)[0][-1]: the k-th largest value, 1 <= k <= n
topk_last(values, k) ==
    CHOOSE v \in Range(values) :
        /\ Cardinality({i \in DOMAIN values : values[i] > v}) < k
        /\ Cardinality({i \in DOMAIN values : values[i] >= v}) >= k

\* the exception of tensor.topk(ceil(n * rate))[0][-1], or "ok"
gate_status(n, rate) ==
    IF rate = None THEN "TypeError"
    ELSE IF Ceil(n, rate) > n THEN "RuntimeError"
    ELSE IF Ceil(n, rate) = 0 THEN "IndexError"
    ELSE "ok"

\* (1.0 - self.alpha) * golden_loss.sum() + self.alpha * kd_sum
blend(alpha, golden, kd_sum) ==
    Num("golden", (Den - alpha) * SumSeq(golden)) \cup Num("kd", alpha * kd_sum)

strategy_extra(tokens, kd_sum) ==
    ("golden_loss" :> Num("golden_loss", SumSeq(golden_loss_of(tokens))))
    @@ ("kd_loss" :> Num("kd_loss", kd_sum))
    @@ ("nll_loss_student" :> Num("nll_loss_student", SumSeq(nll_loss_of(tokens))))
    @@ ("nll_loss_teacher" :> Num("nll_loss_teacher", SumSeq(nll_loss_teacher_of(tokens))))

-----------------------------------------------------------------------------
(* compute_loss: the four strategies *)

\* F.relu(torch.tanh(x)) in thousandths, x an integer
relu_tanh(x) ==
    IF x <= 0 THEN 0
    ELSE IF x = 1 THEN 762
    ELSE IF x = 2 THEN 964
    ELSE IF x = 3 THEN 995
    ELSE IF x = 4 THEN 999
    ELSE Den

\* the adaptive weights with a seeded fault: the difference is reversed
adaptive_alpha_reversed(self, s) ==
    LET nll == nll_loss_of(s.tokens)
        tnll == nll_loss_teacher_of(s.tokens)
    IN  [i \in DOMAIN nll |-> relu_tanh(self.beta * (nll[i] - tnll[i]))]

\* self.alpha = F.relu(torch.tanh(self.beta * (nll_loss_teacher - nll_loss)))
adaptive_alpha(self, s) ==
    LET nll == nll_loss_of(s.tokens)
        tnll == nll_loss_teacher_of(s.tokens)
    IN  [i \in DOMAIN nll |-> relu_tanh(self.beta * (tnll[i] - nll[i]))]

\* word_and_seq_level with a seeded fault: the fixed weights are swapped
word_and_seq_level_swapped(self, st, s) ==
    LET golden == golden_loss_of(s.tokens)
        nll == nll_loss_of(s.tokens)
        tnll == nll_loss_teacher_of(s.tokens)
        kd_loss == kd_loss_of(s.tokens)
        extra == strategy_extra(s.tokens, SumSeq(kd_loss))
        alpha_t == [i \in DOMAIN nll |-> relu_tanh(self.beta * (tnll[i] - nll[i]))]
    IN  IF self.use_adaptive_weightage
        THEN IF self.beta = None
             THEN Raise("TypeError", st)
             ELSE Return(st,
                    Num("golden", SumSeq([i \in DOMAIN nll |-> (Den - alpha_t[i]) * golden[i]]))
                    \cup Num("kd", SumSeq([i \in DOMAIN nll |-> alpha_t[i] * kd_loss[i]])),
                    extra, SumSeq(kd_loss))
        ELSE IF self.alpha = None
             THEN Raise("TypeError", st)
             ELSE Return(st,
                    Num("golden", SumSeq([i \in DOMAIN nll |-> self.alpha * golden[i]]))
                    \cup Num("kd", SumSeq([i \in DOMAIN nll |-> (Den - self.alpha) * kd_loss[i]])),
                    extra, SumSeq(kd_loss))

\* word_and_seq_level: every position, padding masked
word_and_seq_level(self, st, s) ==
    LET golden == golden_loss_of(s.tokens)
        nll == nll_loss_of(s.tokens)
        tnll == nll_loss_teacher_of(s.tokens)
        kd_loss == kd_loss_of(s.tokens)
        extra == strategy_extra(s.tokens, SumSeq(kd_loss))
        alpha_t == adaptive_alpha(self, s)
    IN  IF self.use_adaptive_weightage
        THEN IF self.beta = None
             THEN Raise("TypeError", st)
             ELSE Return(st,
                    Num("golden", SumSeq([i \in DOMAIN nll |-> (Den - alpha_t[i]) * golden[i]]))
                    \cup Num("kd", SumSeq([i \in DOMAIN nll |-> alpha_t[i] * kd_loss[i]])),
                    extra, SumSeq(kd_loss))
        ELSE IF self.alpha = None
             THEN Raise("TypeError", st)
             ELSE Return(st,
                    Num("golden", SumSeq([i \in DOMAIN nll |-> (Den - self.alpha) * golden[i]]))
                    \cup Num("kd", SumSeq([i \in DOMAIN nll |-> self.alpha * kd_loss[i]])),
                    extra, SumSeq(kd_loss))

\* batch_level with a seeded fault: the batch is pushed to the queue
batch_level_pushing(self, st, s) ==
    LET nll == nll_loss_of(s.tokens)
        st1 == [queue |-> push_to_FIFO_queue(st.queue, nll, self.kd_queue_size),
                pushed |-> st.pushed + Len(nll)]
        gs == gate_status(Len(nll), self.kd_rate)
        loss_gate == topk_last(nll, Ceil(Len(nll), self.kd_rate))
        KD_mask == [i \in DOMAIN nll |-> nll[i] < loss_gate]
        kd_loss == kd_loss_of(s.tokens)
        kd_sum == SumOver(kd_loss, {i \in DOMAIN nll : ~KD_mask[i]})
    IN  IF gs # "ok" THEN Raise(gs, st1)
        ELSE IF self.alpha = None THEN Raise("TypeError", st1)
        ELSE Return(st1, blend(self.alpha, golden_loss_of(s.tokens), kd_sum),
                    strategy_extra(s.tokens, kd_sum), kd_sum)

\* batch_level with a seeded fault: the mask is not inverted
batch_level_keep_masked(self, st, s) ==
    LET nll == nll_loss_of(s.tokens)
        gs == gate_status(Len(nll), self.kd_rate)
        loss_gate == topk_last(nll, Ceil(Len(nll), self.kd_rate))
        KD_mask == [i \in DOMAIN nll |-> nll[i] < loss_gate]
        kd_loss == kd_loss_of(s.tokens)
        kd_sum == SumOver(kd_loss, {i \in DOMAIN nll : KD_mask[i]})
    IN  IF gs # "ok" THEN Raise(gs, st)
        ELSE IF self.alpha = None THEN Raise("TypeError", st)
        ELSE Return(st, blend(self.alpha, golden_loss_of(s.tokens), kd_sum),
                    strategy_extra(s.tokens, kd_sum), kd_sum)

\* batch_level: the gate is the ceil(n * kd_rate)-th largest NLL of the
\* batch, KD_mask = nll_loss < loss_gate, kd_loss = kd_loss[~KD_mask]
batch_level(self, st, s) ==
    LET nll == nll_loss_of(s.tokens)
        gs == gate_status(Len(nll), self.kd_rate)
        loss_gate == topk_last(nll, Ceil(Len(nll), self.kd_rate))
        KD_mask == [i \in DOMAIN nll |-> nll[i] < loss_gate]
        kd_loss == kd_loss_of(s.tokens)
        kd_sum == SumOver(kd_loss, {i \in DOMAIN nll : ~KD_mask[i]})
    IN  IF gs # "ok" THEN Raise(gs, st)
        ELSE IF self.alpha = None THEN Raise("TypeError", st)
        ELSE Return(st, blend(self.alpha, golden_loss_of(s.tokens), kd_sum),
                    strategy_extra(s.tokens, kd_sum), kd_sum)

\* global_level: the batch is pushed first, the gate comes from the queue
global_level(self, st, s) ==
    LET nll == nll_loss_of(s.tokens)
        st1 == [queue |-> push_to_FIFO_queue(st.queue, nll, self.kd_queue_size),
                pushed |-> st.pushed + Len(nll)]
        q1 == st1.queue
        gs == gate_status(Len(q1), self.kd_rate)
        loss_gate == topk_last(q1, Ceil(Len(q1), self.kd_rate))
        KD_mask == [i \in DOMAIN nll |-> nll[i] < loss_gate]
        kd_loss == kd_loss_of(s.tokens)
        kd_sum == SumOver(kd_loss, {i \in DOMAIN nll : ~KD_mask[i]})
    IN  IF gs # "ok" THEN Raise(gs, st1)
        ELSE IF self.alpha = None THEN Raise("TypeError", st1)
        ELSE Return(st1, blend(self.alpha, golden_loss_of(s.tokens), kd_sum),
                    strategy_extra(s.tokens, kd_sum), kd_sum)

\* get_lang_ids: per source row, the token at the first non-padding column
\* (column 0 when the whole row is padding)
get_lang_ids(src_tokens) ==
    [b \in DOMAIN src_tokens |->
        LET row == src_tokens[b]
            non_pad == {c \in DOMAIN row : row[c] # padding_idx}
            col == IF non_pad = {} THEN 1
                   ELSE CHOOSE c \in non_pad : \A d \in non_pad : c <= d
        IN  row[col]]

RECURSIVE Dedup(_)
\* the keys of `indices` in insertion order
Dedup(ids) ==
    IF ids = <<>> THEN <<>>
    ELSE LET rest == Dedup(SubSeq(ids, 1, Len(ids) - 1))
             last == ids[Len(ids)]
         IN  IF last \in Range(rest) THEN rest ELSE Append(rest, last)

RECURSIVE RowsWith(_, _, _)
\* indices[key]: the rows b, b+1, ... whose language id is key, ascending
RowsWith(ids, key, b) ==
    IF b > Len(ids) THEN <<>>
    ELSE (IF ids[b] = key THEN <<b>> ELSE <<>>) \o RowsWith(ids, key, b + 1)

RECURSIVE FlattenRows(_, _, _)
\* nll_loss.view(B, -1).index_select(0, rows).view(-1)
FlattenRows(nll, T, rows) ==
    IF rows = <<>> THEN <<>>
    ELSE SubSeq(nll, (Head(rows) - 1) * T + 1, Head(rows) * T)
         \o FlattenRows(nll, T, Tail(rows))

RECURSIVE push_all_atomic(_, _, _, _)
\* the push loop with a seeded fault: when an id has no queue the pushes
\* already made are undone
push_all_atomic(st, keys, tensors, kd_queue_size) ==
    IF keys = <<>> THEN [status |-> "ok", st |-> st]
    ELSE IF Head(keys) \notin DOMAIN st.queue
    THEN [status |-> "KeyError", st |-> st]
    ELSE LET r == push_all_atomic(
                    [queue |-> push_to_lang_FIFO_queue(
                                   st.queue, Head(keys), Head(tensors),
                                   kd_queue_size),
                     pushed |-> [st.pushed EXCEPT
                                    ![Head(keys)] = @ + Len(Head(tensors))]],
                    Tail(keys), Tail(tensors), kd_queue_size)
         IN  IF r.status = "ok" THEN r ELSE [status |-> r.status, st |-> st]

RECURSIVE push_all(_, _, _, _)
\* the loop of push_to_lang_FIFO_queue over indices.items(); an id without
\* a queue raises KeyError after the earlier languages were pushed
push_all(st, keys, tensors, kd_queue_size) ==
    IF keys = <<>> THEN [status |-> "ok", st |-> st]
    ELSE IF Head(keys) \notin DOMAIN st.queue
    THEN [status |-> "KeyError", st |-> st]
    ELSE push_all(
            [queue |-> push_to_lang_FIFO_queue(st.queue, Head(keys),
                                               Head(tensors), kd_queue_size),
             pushed |-> [st.pushed EXCEPT ![Head(keys)] = @ + Len(Head(tensors))]],
            Tail(keys), Tail(tensors), kd_queue_size)

\* e^(1/n) in thousandths
ExpInv(n) ==
    IF n = 1 THEN 2718
    ELSE IF n = 2 THEN 1649
    ELSE IF n = 3 THEN 1396
    ELSE IF n = 4 THEN 1284
    ELSE Den + Den \div n

\* get_lang_kd_rates: softmax((1 / lens) / T) in thousandths when the rates
\* are adaptive, kd_rate for every language otherwise
get_lang_kd_rates(self, lens) ==
    IF self.use_adaptive_kd_rates
    THEN LET e == [j \in DOMAIN lens |-> ExpInv(lens[j] * self.kd_selection_temp)]
         IN  [j \in DOMAIN lens |-> (Den * e[j]) \div SumSeq(e)]
    ELSE [j \in DOMAIN lens |-> self.kd_rate]

\* global_multi_level
global_multi_level(self, st, s) ==
    LET nll == nll_loss_of(s.tokens)
        kd_loss == kd_loss_of(s.tokens)
        T == SampleLen(s)
        ids == get_lang_ids(s.src_tokens)
        keys == Dedup(ids)
        rows == [j \in DOMAIN keys |-> RowsWith(ids, keys[j], 1)]
        tensors == [j \in DOMAIN keys |-> FlattenRows(nll, T, rows[j])]
        pr == push_all(st, keys, tensors, self.kd_queue_size)
        Q == pr.st.queue
        \* the loop variable of the push loop, as the selection loop reads it
        nll_loss_lang == tensors[Len(keys)]
        kd_rates == get_lang_kd_rates(self, [j \in DOMAIN keys |-> Len(rows[j])])
        gs == [j \in DOMAIN keys |-> gate_status(Len(Q[keys[j]]), kd_rates[j])]
        bad == {j \in DOMAIN keys : gs[j] # "ok"}
        loss_gate == [j \in DOMAIN keys |->
                        topk_last(Q[keys[j]], Ceil(Len(Q[keys[j]]), kd_rates[j]))]
        KD_indices == [j \in DOMAIN keys |->
                        {i \in DOMAIN nll_loss_lang : nll_loss_lang[i] >= loss_gate[j]}]
        total_kd_loss == SumSeq([j \in DOMAIN keys |-> SumOver(kd_loss, KD_indices[j])])
    IN  IF pr.status # "ok" THEN Raise(pr.status, pr.st)
        ELSE IF self.use_adaptive_kd_rates /\ self.kd_selection_temp = None
        THEN Raise("TypeError", pr.st)
        ELSE IF bad # {}
        THEN Raise(gs[CHOOSE j \in bad : \A k \in bad : j <= k], pr.st)
        ELSE IF self.alpha = None THEN Raise("TypeError", pr.st)
        ELSE Return(pr.st,
                    blend(self.alpha, golden_loss_of(s.tokens), total_kd_loss),
                    strategy_extra(s.tokens, total_kd_loss), SumSeq(kd_loss))

\* the dispatch with a seeded fault: global_level is entered whatever the
\* weighting
token_level_unchecked(self, st, s) ==
    IF ~s.teacher_output
    THEN Return(st, Num("golden", SumSeq(golden_loss_of(s.tokens))),
                "golden_loss" :> Num("golden_loss", SumSeq(golden_loss_of(s.tokens))), 0)
    ELSE IF self.kd_strategy = "word_and_seq_level"
    THEN word_and_seq_level(self, st, s)
    ELSE IF ~self.use_adaptive_weightage /\ self.kd_strategy = "batch_level"
    THEN batch_level(self, st, s)
    ELSE IF self.kd_strategy = "global_level"
    THEN global_level(self, st, s)
    ELSE IF ~self.use_adaptive_weightage /\ self.kd_strategy = "global_multi_level"
    THEN global_multi_level(self, st, s)
    ELSE Raise("ValueError", st)

\* the dispatch on teacher_output, kd_strategy and use_adaptive_weightage
token_level(self, st, s) ==
    IF ~s.teacher_output
    THEN Return(st, Num("golden", SumSeq(golden_loss_of(s.tokens))),
                "golden_loss" :> Num("golden_loss", SumSeq(golden_loss_of(s.tokens))), 0)
    ELSE IF self.kd_strategy = "word_and_seq_level"
    THEN word_and_seq_level(self, st, s)
    ELSE IF ~self.use_adaptive_weightage /\ self.kd_strategy = "batch_level"
    THEN batch_level(self, st, s)
    ELSE IF ~self.use_adaptive_weightage /\ self.kd_strategy = "global_level"
    THEN global_level(self, st, s)
    ELSE IF ~self.use_adaptive_weightage /\ self.kd_strategy = "global_multi_level"
    THEN global_multi_level(self, st, s)
    ELSE Raise("ValueError", st)

-----------------------------------------------------------------------------
(* compute_loss: the representation terms *)

\* `if epoch <= 100`
RepEpochs == 100
\* the divisor of the decoder terms when self_kd and cross_kd are both on
HalfDiv == 2
\* the divisor of the regression term
RegressionDiv == 50
\* the factor of value_relation.shape[2] in the value-relation divisor
ValueDiv == 4
\* the factor of rep_loss and kd_loss in kld_uncertainty
KldUncertaintyMul == 2

\* base * self.rambda * (self.decay ** (epoch - 1)) / div
RepTerm(term, base, epoch, div) ==
    IF base = 0 THEN Zero
    ELSE {Summand(term, [value |-> base, weight |-> "1", rambda |-> 1,
                         decay_exp |-> epoch - 1, div |-> div, mul |-> 1])}

\* weight * sum * mul
Weighted(sum, weight, mul) ==
    {[x EXCEPT !.q.weight = weight, !.q.mul = @ * mul] : x \in sum}

\* The local variables attn_loss, decoder_self_attn_loss, ... of
\* compute_loss: vars maps the names of those that are not None to their
\* values; status is "ok" or the exception raised while computing them.
Locals(locs) == [status |-> "ok", vars |-> locs]
Fails(exc) == [status |-> exc, vars |-> NoExtra]
NoLocals == Locals(NoExtra)

Then(a, b) ==
    IF a.status # "ok" THEN a
    ELSE IF b.status # "ok" THEN b
    ELSE Locals(a.vars @@ b.vars)

\* the encoder attention term
attn_term(s) ==
    Locals("attn_loss" :> RepTerm("attn_loss", s.dist.attn, s.epoch, 1))

\* the value-relation term, divided by x * 4, x = value_relation.shape[2]
value_term(self, s) ==
    IF ~self.value_kd THEN NoLocals
    ELSE IF ~s.value_maps THEN Fails("AttributeError")
    ELSE Locals("value_relation_loss" :>
                RepTerm("value_relation_loss", s.dist.value, s.epoch,
                        s.value_shape[1] * ValueDiv))

\* the decoder self-/cross-attention terms: halves when both are on
self_cross_terms(self, s) ==
    IF ~(self.self_kd \/ self.cross_kd) THEN NoLocals
    ELSE IF ~s.teacher_decoder_attn THEN Fails("AttributeError")
    ELSE IF self.self_kd /\ self.cross_kd
    THEN Locals(("decoder_self_attn_loss" :>
                    RepTerm("decoder_self_attn_loss", s.dist.self, s.epoch, HalfDiv))
                @@ ("decoder_cross_attn_loss" :>
                    RepTerm("decoder_cross_attn_loss", s.dist.cross, s.epoch, HalfDiv)))
    ELSE IF self.self_kd
    THEN Locals("decoder_self_attn_loss" :>
                RepTerm("decoder_self_attn_loss", s.dist.self, s.epoch, 1))
    ELSE Locals("decoder_cross_attn_loss" :>
                RepTerm("decoder_cross_attn_loss", s.dist.cross, s.epoch, 1))

decoder_terms(self, s) ==
    IF self.decoder_kd THEN self_cross_terms(self, s) ELSE NoLocals

\* loss_type 'mse' (and the terms of 'mse_uncertainty')
mse_terms(self, s) ==
    Then(attn_term(s), Then(value_term(self, s), decoder_terms(self, s)))

\* loss_type 'regression': decoder_attn is a local that is never assigned
\* on this path
regression_terms(self, s) ==
    Then(IF ~s.regressed_maps THEN Fails("AttributeError")
         ELSE Locals("regression_loss" :>
                     RepTerm("regression_loss", s.dist.regression, s.epoch,
                             RegressionDiv)),
         Then(value_term(self, s),
              IF self.decoder_kd THEN Fails("UnboundLocalError") ELSE NoLocals))

\* loss_type 'kld' (and the terms of 'kld_uncertainty')
kld_terms(self, s) == Then(attn_term(s), decoder_terms(self, s))

\* loss_type 'minilm': value_relation[:, -4:, :, :], then
\* decoder_attn[:, -4:, :, :] with decoder_attn a local not yet assigned
minilm_terms(self, s) ==
    IF ~s.value_maps THEN Fails("TypeError") ELSE Fails("UnboundLocalError")

\* epoch > 100: attn_loss and value_relation_loss times 0
late_terms(self, s) ==
    IF ~s.value_maps THEN Fails("TypeError")
    ELSE Locals(("attn_loss" :> Zero) @@ ("value_relation_loss" :> Zero))

\* rep_terms with a seeded fault: `if epoch is not None` for `if epoch`
rep_terms_epoch_zero(self, s) ==
    IF s.epoch = None THEN NoLocals
    ELSE IF ~(s.attn /\ s.teacher_attn) THEN NoLocals
    ELSE IF s.epoch > RepEpochs THEN late_terms(self, s)
    ELSE IF self.loss_type = "mse" THEN mse_terms(self, s)
    ELSE IF self.loss_type = "regression" THEN regression_terms(self, s)
    ELSE IF self.loss_type = "kld" THEN kld_terms(self, s)
    ELSE IF self.loss_type = "decoder" THEN self_cross_terms(self, s)
    ELSE IF self.loss_type = "minilm" THEN minilm_terms(self, s)
    ELSE NoLocals

\* the locals of the modes that fall through to the final summation
rep_terms(self, s) ==
    IF s.epoch = None \/ s.epoch = 0 THEN NoLocals
    ELSE IF ~(s.attn /\ s.teacher_attn) THEN NoLocals
    ELSE IF s.epoch > RepEpochs THEN late_terms(self, s)
    ELSE IF self.loss_type = "mse" THEN mse_terms(self, s)
    ELSE IF self.loss_type = "regression" THEN regression_terms(self, s)
    ELSE IF self.loss_type = "kld" THEN kld_terms(self, s)
    ELSE IF self.loss_type = "decoder" THEN self_cross_terms(self, s)
    ELSE IF self.loss_type = "minilm" THEN minilm_terms(self, s)
    ELSE NoLocals

AuxNames ==
    <<"attn_loss", "decoder_self_attn_loss", "decoder_cross_attn_loss",
      "value_relation_loss", "regression_loss">>

\* `if attn_loss: extra['attn_loss'] = attn_loss.sum(); loss += attn_loss`
\* and the same for the other four locals
add_terms(r, locs) ==
    LET truthy == {n \in Range(AuxNames) : n \in DOMAIN locs /\ locs[n] # Zero}
    IN  [r EXCEPT !.loss = @ \cup UNION {locs[n] : n \in truthy},
                  !.extra = [n \in truthy |-> locs[n]] @@ @]

\* whether the early-returning modes are entered
uncertainty_entered(self, s) ==
    /\ s.epoch # None /\ s.epoch # 0 /\ s.epoch <= RepEpochs
    /\ s.attn /\ s.teacher_attn
    /\ self.loss_type \in {"mse_uncertainty", "kld_uncertainty"}

\* 'mse_uncertainty' and 'kld_uncertainty': the sum of the three attention
\* terms weighted by weight_mean, the KD loss by 1 - weight_mean, returned
\* at once.  With a per-token alpha the result is not a scalar.
uncertainty(self, s, r) ==
    LET kld == self.loss_type = "kld_uncertainty"
        t == IF kld THEN kld_terms(self, s) ELSE mse_terms(self, s)
        mul == IF kld THEN KldUncertaintyMul ELSE 1
        rep == t.vars["attn_loss"] \cup t.vars["decoder_self_attn_loss"]
               \cup t.vars["decoder_cross_attn_loss"]
        rep_loss == Weighted(rep, "w", mul)
        kd_loss == Weighted(Num("kd", self.alpha * r.kd_sum), "1-w", mul)
        golden == Num("golden", (Den - self.alpha) * SumSeq(golden_loss_of(s.tokens)))
    IN  IF t.status # "ok" THEN Raise(t.status, r.st)
        ELSE IF ~({"decoder_self_attn_loss", "decoder_cross_attn_loss"}
                    \subseteq DOMAIN t.vars)
        THEN Raise("TypeError", r.st)
        ELSE IF self.use_adaptive_weightage THEN Raise("non_scalar", r.st)
        ELSE [r EXCEPT
                !.loss = golden \cup rep_loss \cup kd_loss,
                !.extra = ("attn_loss" :> t.vars["attn_loss"])
                          @@ ("decoder_self_attn_loss" :> t.vars["decoder_self_attn_loss"])
                          @@ ("decoder_cross_attn_loss" :> t.vars["decoder_cross_attn_loss"])
                          @@ ("rep_loss" :> rep_loss)
                          @@ ("kd_loss" :> kd_loss)
                          @@ (IF kld
                              THEN "weight" :> Weighted(Num("weight", 1), "w", 1)
                              ELSE NoExtra)
                          @@ @]

\* after the strategy ended in r: the representation terms
representation(self, s, r, t) ==
    IF r.status # "ok" THEN r
    ELSE IF uncertainty_entered(self, s) THEN uncertainty(self, s, r)
    ELSE IF t.status # "ok" THEN Raise(t.status, r.st)
    ELSE add_terms(r, t.vars)

\* teacher_output[0] on None is a TypeError; nll_loss_teacher is unbound
\* when the batch carries no teacher_lprobs
compute_loss(self, st, s) ==
    IF ~s.teacher_output THEN Raise("TypeError", st)
    ELSE IF ~s.teacher_lprobs THEN Raise("UnboundLocalError", st)
    ELSE representation(self, s, token_level(self, st, s), rep_terms(self, s))

-----------------------------------------------------------------------------
(* forward *)

LogNames ==
    {"kd_loss", "nll_loss_teacher", "attn_loss", "decoder_self_attn_loss",
     "decoder_cross_attn_loss", "rep_loss", "golden_loss", "weight"}

ntokens_of(s) == Cardinality({i \in DOMAIN s.tokens : ~s.tokens[i].pad})

\* what forward returns (status "ok") or raises, r being what compute_loss
\* handed back; logging_output holds the loss entries, the counts are
\* fields of their own
logging(self, s, r) ==
    [status |-> r.status,
     loss |-> r.loss,
     sample_size |-> IF r.status # "ok" THEN 0
                     ELSE IF self.sentence_avg THEN s.bsz ELSE ntokens_of(s),
     ntokens |-> IF r.status = "ok" THEN ntokens_of(s) ELSE 0,
     nsentences |-> IF r.status = "ok" THEN s.bsz ELSE 0,
     logging_output |->
        IF r.status # "ok" THEN NoExtra
        ELSE ("loss" :> r.loss)
             @@ ("nll_loss_student" :> Get(r.extra, "nll_loss_student", r.loss))
             @@ [n \in LogNames |-> Get(r.extra, n, Zero)],
     st |-> r.st]

\* forward: the result, with self.queue as the call leaves it (st)
forward(self, st, s) == logging(self, s, compute_loss(self, st, s))

NoOut ==
    [status |-> "none", loss |-> Zero, sample_size |-> 0, ntokens |-> 0,
     nsentences |-> 0, logging_output |-> NoExtra]

-----------------------------------------------------------------------------
(* Construction *)

\* KDLabelSmoothedCrossEntropyCriterion.__init__: the fields compute_loss
\* reads; args.kd_strategy is task.kd_strategy
Criterion(args) ==
    [kd_strategy |-> args.kd_strategy,
     kd_rate |-> args.kd_rate,
     kd_queue_size |-> args.kd_queue_size,
     use_adaptive_weightage |-> args.use_adaptive_weightage,
     use_adaptive_kd_rates |-> args.use_adaptive_kd_rates,
     kd_selection_temp |-> args.kd_selection_temp,
     alpha |-> IF ~args.use_adaptive_weightage THEN args.alpha ELSE None,
     beta |-> IF args.adaptive_smoothing # None THEN 1 ELSE args.adaptive_smoothing,
     loss_type |-> args.loss_type,
     decoder_kd |-> args.decoder_kd,
     self_kd |-> args.self_kd,
     cross_kd |-> args.cross_kd,
     value_kd |-> args.value_kd,
     sentence_avg |-> args.sentence_avg]

\* the defaults of KDLabelSmoothedCrossEntropyCriterionConfig and of
\* KDTranslationConfig.kd_strategy, with the model's queue size
DefaultArgs ==
    [kd_strategy |-> "word_and_seq_level",
     kd_rate |-> None,
     kd_queue_size |-> QueueSize,
     use_adaptive_weightage |-> FALSE,
     use_adaptive_kd_rates |-> FALSE,
     kd_selection_temp |-> None,
     alpha |-> None,
     adaptive_smoothing |-> None,
     loss_type |-> "mse",
     decoder_kd |-> FALSE,
     self_kd |-> TRUE,
     cross_kd |-> TRUE,
     value_kd |-> FALSE,
     sentence_avg |-> FALSE]

Strategies ==
    {"word_and_seq_level", "batch_level", "global_level", "global_multi_level"}

LossTypes ==
    {"mse", "mse_uncertainty", "regression", "kld", "kld_uncertainty",
     "decoder", "minilm"}

-----------------------------------------------------------------------------
(* The architecture presets (custom/__init__.py) *)

\* an args namespace is a function from the names of its attributes to
\* their values; getattr(args, name, default) is Get(args, name, default).
\* Python's True and False are the numbers 1 and 0.
True == 1
False == 0

\* args.name = value
setattr(a, name, value) ==
    [x \in DOMAIN a \cup {name} |-> IF x = name THEN value ELSE a[x]]

\* args.name = value, whatever args holds: a seeded fault of fill
fill_overwrite(a, name, default) == setattr(a, name, default)

\* args.name = getattr(args, name, default)
fill(a, name, default) == setattr(a, name, Get(a, name, default))

RECURSIVE fill_all(_, _)
\* the assignments of a preset, in order
fill_all(a, rows) ==
    IF rows = <<>> THEN a
    ELSE fill_all(fill(a, Head(rows)[1], Head(rows)[2]), Tail(rows))

\* the body of a nine-layer-table preset
SmallPreset(flag, value, enc_layers, heads, dec_layers) ==
    <<<<flag, value>>,
      <<"encoder_embed_dim", 512>>,
      <<"encoder_ffn_embed_dim", 1024>>,
      <<"encoder_layers", enc_layers>>,
      <<"encoder_attention_heads", heads>>,
      <<"decoder_layers", dec_layers>>,
      <<"decoder_attention_heads", heads>>>>

\* the body of transformer_big, transformer_huge, transformer_xlarge
LargePreset(embed, ffn) ==
    <<<<"encoder_embed_dim", embed>>,
      <<"encoder_ffn_embed_dim", ffn>>,
      <<"encoder_attention_heads", 16>>,
      <<"encoder_normalize_before", False>>,
      <<"decoder_embed_dim", embed>>,
      <<"decoder_ffn_embed_dim", ffn>>,
      <<"decoder_attention_heads", 16>>>>

\* the registry: architecture name |-> the assignments of its function
Presets ==
    [transformer_small_link_8heads |-> SmallPreset("link", True, 3, 8, 6),
     transformer_tiny_link_8heads |-> SmallPreset("link", True, 3, 8, 3),
     transformer_small_link |-> SmallPreset("link", True, 3, 4, 6),
     transformer_2layers_8heads |-> SmallPreset("link", True, 2, 8, 2),
     transformer_2layers |-> SmallPreset("link", True, 2, 4, 2),
     transformer_3layers_regressor |-> SmallPreset("regressor", True, 3, 4, 3),
     transformer_2layers_regressor |-> SmallPreset("regressor", True, 2, 4, 2),
     transformer_tiny_link |-> SmallPreset("link", True, 3, 4, 3),
     transformer_tiny_nolink |-> SmallPreset("link", False, 3, 4, 3),
     transformer_2x |-> LargePreset(1024, 4096),
     transformer_4x |-> LargePreset(1536, 4096),
     transformer_9x |-> LargePreset(2048, 8192)]

\* fairseq.models.transformer.base_architecture, the shared filler: it
\* fills what is still unset, the decoder's sizes after the encoder's
base_architecture(a) ==
    LET a1 == fill_all(a, <<<<"encoder_embed_dim", 512>>,
                            <<"encoder_ffn_embed_dim", 2048>>,
                            <<"encoder_layers", 6>>,
                            <<"encoder_attention_heads", 8>>,
                            <<"encoder_normalize_before", False>>>>)
    IN  fill_all(a1, <<<<"decoder_embed_dim", a1["encoder_embed_dim"]>>,
                       <<"decoder_ffn_embed_dim", a1["encoder_ffn_embed_dim"]>>,
                       <<"decoder_layers", 6>>,
                       <<"decoder_attention_heads", 8>>,
                       <<"decoder_normalize_before", False>>>>)

\* the function registered under name, applied to args
preset(name, a) == base_architecture(fill_all(a, Presets[name]))

\* the attributes a caller may have set before the preset runs
ArchFields ==
    {"link", "regressor", "encoder_embed_dim", "encoder_ffn_embed_dim",
     "encoder_layers", "encoder_attention_heads", "encoder_normalize_before",
     "decoder_embed_dim", "decoder_ffn_embed_dim", "decoder_layers",
     "decoder_attention_heads"}

\* a value of the caller's: a size no preset names, a flag, or None
CallerValue(name, style) ==
    IF style = 2 THEN None
    ELSE IF name \in {"link", "regressor", "encoder_normalize_before"}
    THEN (IF style = 0 THEN True ELSE False)
    ELSE 7

\* the args objects a preset is invoked on
CallerArgs ==
    {[f \in F |-> CallerValue(f, style)] :
        F \in SUBSET ArchFields, style \in 0..2}

NoArch == [name |-> "none", given |-> NoExtra, args |-> NoExtra]

-----------------------------------------------------------------------------
(* The task (tasks/kd_translation.py) *)

\* a dictionary symbol is the sequence of its characters
Marker == <<"_", "_", "s", "r", "c", "_", "_">>

\* str.startswith
startswith(sym, prefix) ==
    /\ Len(sym) >= Len(prefix)
    /\ SubSeq(sym, 1, Len(prefix)) = prefix

\* `prefix in sym`
contains(sym, prefix) ==
    \E k \in 0..(Len(sym) - Len(prefix)) :
        SubSeq(sym, k + 1, k + Len(prefix)) = prefix

RECURSIVE ids_containing(_, _)
\* [i for i in range(i, len(src_dict)) if "__src__" in src_dict[i]]
ids_containing(src_dict, i) ==
    IF i >= Len(src_dict) THEN <<>>
    ELSE (IF contains(src_dict[i + 1], Marker) THEN <<i>> ELSE <<>>)
         \o ids_containing(src_dict, i + 1)

RECURSIVE marked_ids(_, _)
\* [i for i in range(i, len(src_dict)) if src_dict[i].startswith("__src__")],
\* the dictionary's index i being position i + 1 of the sequence
marked_ids(src_dict, i) ==
    IF i >= Len(src_dict) THEN <<>>
    ELSE (IF startswith(src_dict[i + 1], Marker) THEN <<i>> ELSE <<>>)
         \o marked_ids(src_dict, i + 1)

\* a seeded fault of src_lang_ids_of: the marker anywhere in the symbol
src_lang_ids_anywhere(src_dict) == ids_containing(src_dict, 0)

\* self.src_lang_ids of KDTranslationTask.__init__
src_lang_ids_of(src_dict) == marked_ids(src_dict, 0)

\* KDTranslationTask(cfg, src_dict, tgt_dict): the fields the criterion
\* reads
KDTranslationTask(kd_strategy, src_dict) ==
    [kd_strategy |-> kd_strategy,
     src_dict |-> src_dict,
     src_lang_ids |-> src_lang_ids_of(src_dict)]

\* the symbols every dictionary starts with: <s>, <pad>, </s>, <unk>
Specials == <<<<"<", "s", ">">>, <<"<", "p", "a", "d", ">">>,
              <<"<", "/", "s", ">">>, <<"<", "u", "n", "k", ">">>>>

\* the dictionary behind the ids of the batches: two languages and a word
DefaultDict ==
    Specials \o <<Marker \o <<"a">>, Marker \o <<"b">>, <<"w">>>>

DefaultTask == KDTranslationTask("word_and_seq_level", DefaultDict)

-----------------------------------------------------------------------------
(* reduce_metrics *)

\* the scalars divided by a summed count: the name logged, the key summed,
\* the key of the count
Scalars ==
    <<<<"loss", "loss", "sample_size">>,
      <<"attn_loss", "attn_loss", "sample_size">>,
      <<"rep_loss", "rep_loss", "sample_size">>,
      <<"golden_loss", "golden_loss", "sample_size">>,
      <<"decoder_self_attn_loss", "decoder_self_attn_loss", "sample_size">>,
      <<"decoder_cross_attn_loss", "decoder_cross_attn_loss", "sample_size">>,
      <<"nll_loss", "nll_loss_student", "ntokens">>,
      <<"nll_loss_teacher", "nll_loss_teacher", "ntokens">>,
      <<"kd_loss", "kd_loss", "ntokens">>>>

\* a seeded fault of Scalars: kd_loss divided by the summed sample_size
ScalarsKdBySampleSize ==
    [i \in DOMAIN Scalars |->
        IF Scalars[i][1] = "kd_loss"
        THEN <<"kd_loss", "kd_loss", "sample_size">>
        ELSE Scalars[i]]

WeightDiv == 16
AccuracyRound == 3
ScalarRound == 3
Percent == 100

\* sum(log.get(key, 0) for log in logging_outputs)
sum_of(logging_outputs, key) ==
    SumSeq([i \in DOMAIN logging_outputs |-> Get(logging_outputs[i], key, 0)])

\* a value logged: num / den, divided by math.log(2) when log2, rounded to
\* round decimals (None: as it is)
Value(num, den, log2, round) ==
    [num |-> num, den |-> den, log2 |-> log2, round |-> round]

\* float("nan")
NaN == [nan |-> TRUE]

\* metrics.log_scalar(name, value, weight, round)
log_scalar(name, value, weight) ==
    [name |-> name, value |-> value, weight |-> weight]

RECURSIVE log_scalars(_, _, _)
\* the log_scalar calls of the rows in order: num / den / math.log(2) with
\* weight den, until a division of Python numbers by zero raises
log_scalars(rows, logging_outputs, log) ==
    IF rows = <<>> THEN [status |-> "ok", log |-> log]
    ELSE LET row == Head(rows)
             num == sum_of(logging_outputs, row[2])
             den == sum_of(logging_outputs, row[3])
         IN  IF den = 0 THEN [status |-> "ZeroDivisionError", log |-> log]
             ELSE log_scalars(Tail(rows), logging_outputs,
                      Append(log, log_scalar(row[1],
                                 Value(num, den, TRUE, ScalarRound), den)))

\* the lambda registered as "accuracy"
accuracy(meters) ==
    IF meters.total > 0
    THEN Value(meters.n_correct * Percent, meters.total, FALSE, AccuracyRound)
    ELSE NaN

NoMeters == [total |-> 0, n_correct |-> 0]

\* reduce_metrics with the rows of its scalars and the number total is
\* tested against as parameters: the log_scalar calls made, the derived
\* metrics registered, and what the meters "total" and "n_correct" hold
\* afterwards
reduce_with(rows, gate, logging_outputs) ==
    LET r == log_scalars(rows, logging_outputs, <<>>)
        weight == sum_of(logging_outputs, "weight")
        total == sum_of(logging_outputs, "total")
        n_correct == sum_of(logging_outputs, "n_correct")
        log1 == Append(r.log,
                    log_scalar("weight",
                               Value(weight, WeightDiv, FALSE, ScalarRound), 1))
    IN  IF r.status # "ok"
        THEN [logging_outputs |-> logging_outputs, status |-> r.status,
              log |-> r.log, derived |-> {}, meters |-> NoMeters]
        ELSE IF total > gate
        THEN [logging_outputs |-> logging_outputs, status |-> "ok",
              log |-> log1 \o
                      <<log_scalar("total", Value(total, 1, FALSE, None), 1),
                        log_scalar("n_correct",
                                   Value(n_correct, 1, FALSE, None), 1)>>,
              derived |-> {"ppl", "accuracy"},
              meters |-> [total |-> total, n_correct |-> n_correct]]
        ELSE [logging_outputs |-> logging_outputs, status |-> "ok",
              log |-> log1, derived |-> {"ppl"}, meters |-> NoMeters]

\* reduce_metrics with a seeded fault: kd_loss is divided by sample_size
reduce_metrics_kd_by_sample_size(logging_outputs) ==
    reduce_with(ScalarsKdBySampleSize, 0, logging_outputs)

\* reduce_metrics with a seeded fault: `if total >= 0:`
reduce_metrics_ungated(logging_outputs) ==
    reduce_with(Scalars, 0 - 1, logging_outputs)

\* `if total > 0:`
reduce_metrics(logging_outputs) ==
    reduce_with(Scalars, 0, logging_outputs)

\* metrics.reset_meters: the sums start again, the derived metrics stay
reset_meters(r) == [r EXCEPT !.meters = NoMeters]

NoReduced ==
    [logging_outputs |-> <<>>, status |-> "none", log |-> <<>>,
     derived |-> {}, meters |-> NoMeters]

\* the keys of a logging output that hold a loss, in the order of the
\* dictionary
LossKeys ==
    <<"loss", "kd_loss", "nll_loss_student", "nll_loss_teacher", "attn_loss",
      "decoder_self_attn_loss", "decoder_cross_attn_loss", "rep_loss",
      "golden_loss", "weight">>

\* the logging output of a batch of n tokens in nsent sentences: the k-th
\* loss key holds k * (n + 1); n_correct and total only under
\* report_accuracy, total being the number of tokens
LogRecord(n, nsent, sentence_avg, report_accuracy, n_correct) ==
    [key \in Range(LossKeys) \cup {"ntokens", "nsentences", "sample_size"}
               \cup (IF report_accuracy THEN {"n_correct", "total"} ELSE {}) |->
        CASE key = "ntokens" -> n
          [] key = "nsentences" -> nsent
          [] key = "sample_size" -> (IF sentence_avg THEN nsent ELSE n)
          [] key = "n_correct" -> n_correct
          [] key = "total" -> n
          [] OTHER -> (n + 1) * (CHOOSE k \in DOMAIN LossKeys : LossKeys[k] = key)]

\* the logging outputs of the batches of one criterion: at most as many
\* sentences as tokens, no prediction or every prediction correct
LogRecords(sentence_avg, report_accuracy) ==
    {LogRecord(t[1], t[2], sentence_avg, report_accuracy, t[3]) :
        t \in {u \in (1..MaxTokens) \X (1..MaxSent) \X (0..MaxTokens) :
                  /\ u[2] <= u[1]
                  /\ u[3] \in {0, u[1]}}}

\* the lists of logging outputs handed to reduce_metrics
LoggingOutputs(sentence_avg, report_accuracy) ==
    UNION {[1..k -> LogRecords(sentence_avg, report_accuracy)] :
           k \in 0..MaxLogs}

-----------------------------------------------------------------------------
(* Operations *)

InitCriterion(args) ==
    /\ config = args
    /\ cfg = Criterion(args)
    /\ queue = InitQueue(args.kd_strategy)
    /\ pushed = IF args.kd_strategy = "global_multi_level"
                THEN [id \in Range(src_lang_ids) |-> 0]
                ELSE 0
    /\ largest = 0
    /\ sample = NoSample
    /\ out = NoOut
    /\ calls = 0

\* the criterion alone: no preset ran, the task is the default one and
\* reduce_metrics was not called
InitWith(args) ==
    /\ InitCriterion(args)
    /\ arch = NoArch
    /\ task = DefaultTask
    /\ reduced = NoReduced

OutFields ==
    {"status", "loss", "sample_size", "ntokens", "nsentences", "logging_output"}

\* the state after a call of forward that ended in res
Ended(res, s) ==
    /\ queue' = res.st.queue
    /\ pushed' = res.st.pushed
    /\ out' = [f \in OutFields |-> res[f]]
    /\ sample' = s
    /\ calls' = calls + 1
    /\ UNCHANGED <<config, cfg, largest, arch, task, reduced>>

\* one call of forward on the batch s
Forward(s) ==
    /\ calls < MaxCalls
    /\ Ended(forward(cfg, [queue |-> queue, pushed |-> pushed], s), s)

-----------------------------------------------------------------------------
(* The token-level strategies *)

KdRates == {None, 0, 250, 500, 1000}
Alphas == {None, 300}

KDArgs ==
    {[DefaultArgs EXCEPT !.kd_strategy = ks, !.use_adaptive_weightage = aw,
                         !.kd_rate = kr, !.alpha = al,
                         !.adaptive_smoothing = sm,
                         !.use_adaptive_kd_rates = ar,
                         !.kd_selection_temp = IF ar THEN 1 ELSE None] :
        ks \in Strategies \cup {"sentence_level"}, aw \in BOOLEAN,
        kr \in KdRates, al \in Alphas, sm \in {None, 2}, ar \in BOOLEAN}

\* the variations a strategy reads: kd_rate under the three gated
\* strategies when they are entered, the adaptive rates under
\* global_multi_level, adaptive_smoothing under the adaptive
\* word_and_seq_level, alpha when the weighting is fixed
KDArgsRead ==
    {a \in KDArgs :
        LET gated == /\ a.kd_strategy \in {"batch_level", "global_level",
                                           "global_multi_level"}
                     /\ ~a.use_adaptive_weightage
        IN  /\ ~gated => a.kd_rate = None
            /\ (gated /\ a.alpha = None) => a.kd_rate = 500
            /\ ~(gated /\ a.kd_strategy = "global_multi_level")
                 => ~a.use_adaptive_kd_rates
            /\ ~(a.kd_strategy = "word_and_seq_level" /\ a.use_adaptive_weightage)
                 => a.adaptive_smoothing = None
            /\ a.use_adaptive_weightage => a.alpha = None}

\* global_level and global_multi_level have specifications of their own
\* (SpecGlobal, SpecMulti); here they are constructed only with the adaptive
\* weighting compute_loss rejects
KDArgsChecked ==
    {a \in KDArgsRead :
        a.kd_strategy \in {"global_level", "global_multi_level"}
            => a.use_adaptive_weightage}

GlobalArgs ==
    {a \in KDArgsRead :
        a.kd_strategy = "global_level" /\ ~a.use_adaptive_weightage}

MultiArgs ==
    {a \in KDArgsRead :
        a.kd_strategy = "global_multi_level" /\ ~a.use_adaptive_weightage}

\* batches whose source rows differ: two languages, a row without a marker
MultiSamples ==
    UNION {{MkSample(sh[1], sh[2], rows, src, 1, None) :
                rows \in [1..sh[1] -> TargetRows(sh[2])],
                src \in [1..sh[1] -> SrcRows]} : sh \in Shapes}

\* batches on which the teacher's NLL is above the student's
TeacherWorseSamples ==
    UNION {{MkSample(sh[1], sh[2], rows,
                     [b \in 1..sh[1] |-> <<LangA, Word>>], MaxNll + 1, None) :
                rows \in [1..sh[1] -> TargetRows(sh[2])]} : sh \in FlatShapes}

\* ten positions with pairwise distinct student NLLs
TenTokenSample ==
    [NoSample EXCEPT
        !.tokens = [i \in 1..10 |->
                      [pad |-> FALSE,
                       nll |-> <<7, 2, 9, 4, 1, 10, 3, 8, 6, 5>>[i],
                       tnll |-> 1,
                       kd |-> Pow2(i - 1)]]]

\* golden loss 10.0 and KD loss 6.0, in tenths
EndToEndSample ==
    [NoSample EXCEPT
        !.tokens = <<[pad |-> FALSE, nll |-> 60, tnll |-> 1, kd |-> 35],
                     [pad |-> FALSE, nll |-> 40, tnll |-> 1, kd |-> 25],
                     [pad |-> TRUE, nll |-> 9, tnll |-> 1, kd |-> 9]>>]

\* the teacher below the student, the student below the teacher, both
\* equal, and a padding position
MixedConfidenceSample ==
    [NoSample EXCEPT
        !.tokens = <<[pad |-> FALSE, nll |-> 3, tnll |-> 1, kd |-> 1],
                     [pad |-> FALSE, nll |-> 1, tnll |-> 3, kd |-> 2],
                     [pad |-> FALSE, nll |-> 2, tnll |-> 2, kd |-> 4],
                     [pad |-> TRUE, nll |-> 9, tnll |-> 1, kd |-> 8]>>]

\* batches without the teacher's artifacts
NoTeacherSamples ==
    {[NoSample EXCEPT !.teacher_output = FALSE, !.teacher_lprobs = FALSE],
     [NoSample EXCEPT !.teacher_lprobs = FALSE]}

\* a batch of two languages and a batch with a sentence of no language
TwoLanguageSamples ==
    {MkSample(2, 1, <<<<1>>, <<1>>>>, <<<<LangA, Word>>, src>>, 1, None) :
        src \in {<<padding_idx, LangB>>, <<Word, Word>>}}

\* the batches made for one strategy
KDSamples(self) ==
    NoTeacherSamples
    \cup (IF self.kd_strategy = "global_multi_level" THEN TwoLanguageSamples ELSE {})
    \cup (IF self.kd_strategy = "batch_level" THEN {TenTokenSample} ELSE {})
    \cup (IF self.kd_strategy = "word_and_seq_level" THEN {EndToEndSample, MixedConfidenceSample} ELSE {})

InitKD == \E args \in KDArgsChecked : InitWith(args)

NextKD ==
    \/ \E s \in PlainSamples : Forward(s)
    \/ \E s \in KDSamples(cfg) : Forward(s)
    \/ /\ cfg.kd_strategy = "word_and_seq_level"
       /\ cfg.use_adaptive_weightage
       /\ \E s \in TeacherWorseSamples : Forward(s)

SpecKD == InitKD /\ [][NextKD]_vars

\* a kd_rate that is not set (the gate raises after the push) and one that is
InitGlobal ==
    \E args \in {a \in GlobalArgs : a.kd_rate \in {None, 500}} : InitWith(args)

NextGlobal == \E s \in PlainSamples : Forward(s)

SpecGlobal == InitGlobal /\ [][NextGlobal]_vars

\* batches of sentences of one position, of every combination of source
\* rows; the sentences carry different NLLs
LanguageSamples ==
    UNION {{MkSample(B, 1, [b \in 1..B |-> <<((b - 1) % MaxNll) + 1>>],
                     src, 1, None) :
                src \in [1..B -> SrcRows]} : B \in 1..MaxSent}

InitLanguages ==
    \E size \in {QueueSize, QueueSize + 1} :
        InitWith([DefaultArgs EXCEPT !.kd_strategy = "global_multi_level",
                                     !.kd_rate = 500, !.alpha = 300,
                                     !.kd_queue_size = size])

NextLanguages == \E s \in LanguageSamples : Forward(s)

SpecLanguages == InitLanguages /\ [][NextLanguages]_vars

InitMulti == \E args \in MultiArgs : InitWith(args)

NextMulti == \E s \in MultiSamples : Forward(s)

SpecMulti == InitMulti /\ [][NextMulti]_vars

-----------------------------------------------------------------------------
(* The representation terms *)

Epochs == {None, 0, 1, 2, RepEpochs, RepEpochs + 1}

RepArgs ==
    {[DefaultArgs EXCEPT !.alpha = 300, !.loss_type = lt, !.decoder_kd = dk,
                         !.self_kd = sk, !.cross_kd = ck, !.value_kd = vk] :
        lt \in LossTypes \cup {"ckd"}, dk \in BOOLEAN, sk \in BOOLEAN,
        ck \in BOOLEAN, vk \in BOOLEAN}

\* the one-position batch at every epoch, with and without the attention
\* maps and the other teacher maps, with student maps equal to the
\* teacher's or not
RepSamples ==
    {[NoSample EXCEPT !.epoch = ep, !.attn = m[1], !.teacher_attn = m[2],
                      !.teacher_decoder_attn = m[3], !.value_maps = m[3],
                      !.regressed_maps = m[3], !.dist = d] :
        ep \in Epochs,
        m \in {<<TRUE, TRUE, TRUE>>, <<TRUE, TRUE, FALSE>>,
               <<FALSE, TRUE, TRUE>>, <<TRUE, FALSE, TRUE>>},
        d \in {DistinctDist, ZeroDist}}

InitRep == \E args \in RepArgs : InitWith(args)

NextRep == \E s \in RepSamples : Forward(s)

SpecRep == InitRep /\ [][NextRep]_vars

-----------------------------------------------------------------------------
(* The queues alone: pushes of tensors of any size.  The values pushed are *)
(* numbered as they come, so the i-th value ever pushed to a queue is i.   *)

\* pushes in one behaviour
MaxPushes == 4

Fresh(from, n) == [i \in 1..n |-> from + i]

\* push_to_FIFO_queue(tensor), tensor of n values
PushFIFO(n) ==
    /\ cfg.kd_strategy # "global_multi_level"
    /\ calls < MaxPushes
    /\ queue' = push_to_FIFO_queue(queue, Fresh(pushed, n), cfg.kd_queue_size)
    /\ pushed' = pushed + n
    /\ largest' = IF n > largest THEN n ELSE largest
    /\ calls' = calls + 1
    /\ UNCHANGED <<config, cfg, sample, out, arch, task, reduced>>

\* push_to_lang_FIFO_queue(id, tensor), tensor of n values
PushLangFIFO(id, n) ==
    /\ cfg.kd_strategy = "global_multi_level"
    /\ calls < MaxPushes
    /\ id \in DOMAIN queue
    /\ queue' = push_to_lang_FIFO_queue(queue, id, Fresh(pushed[id], n),
                                        cfg.kd_queue_size)
    /\ pushed' = [pushed EXCEPT ![id] = @ + n]
    /\ largest' = IF n > largest THEN n ELSE largest
    /\ calls' = calls + 1
    /\ UNCHANGED <<config, cfg, sample, out, arch, task, reduced>>

InitQueues ==
    \E ks \in {"global_level", "global_multi_level"},
       size \in {QueueSize, QueueSize + 1} :
        InitWith([DefaultArgs EXCEPT !.kd_strategy = ks, !.kd_rate = 500,
                                     !.alpha = 300, !.kd_queue_size = size])

NextQueues ==
    \/ \E n \in 1..MaxTokens : PushFIFO(n)
    \/ \E id \in Range(src_lang_ids), n \in 1..MaxTokens : PushLangFIFO(id, n)

SpecQueue == InitQueues /\ [][NextQueues]_vars

\* the queues of the state, whichever the strategy
Queues ==
    IF cfg.kd_strategy = "global_multi_level"
    THEN {<<queue[id], pushed[id]>> : id \in DOMAIN queue}
    ELSE {<<queue, pushed>>}

-----------------------------------------------------------------------------
(* The presets alone (SpecArch) *)

\* the preset registered under name runs on the caller's args
RunPreset(name) ==
    /\ arch.name = "none"
    /\ arch' = [name |-> name, given |-> arch.given,
                args |-> preset(name, arch.given)]
    /\ UNCHANGED <<config, cfg, queue, pushed, largest, sample, out, calls, task, reduced>>

InitArch ==
    /\ InitCriterion(DefaultArgs)
    /\ task = DefaultTask
    /\ reduced = NoReduced
    /\ \E a \in CallerArgs : arch = [NoArch EXCEPT !.given = a]

NextArch == \E name \in DOMAIN Presets : RunPreset(name)

SpecArch == InitArch /\ [][NextArch]_vars

-----------------------------------------------------------------------------
(* The task and the queues keyed by its languages (SpecTask) *)

\* symbols a dictionary may hold after the special ones: a language tag,
\* the marker alone, the marker after another character, the marker cut
\* short, and a word
Symbols ==
    {Marker \o <<"a">>, Marker, <<"x">> \o Marker,
     SubSeq(Marker, 1, Len(Marker) - 1), <<"w">>}

\* the dictionaries: the special symbols, then up to MaxSymbols distinct ones
Dicts ==
    UNION {{Specials \o d : d \in {e \in [1..n -> Symbols] :
                                      \A i, j \in 1..n : e[i] = e[j] => i = j}} :
           n \in 0..MaxSymbols}

\* the task is built on a dictionary and the criterion on the task, with
\* one queue per language of the task
InitTask ==
    /\ \E d \in Dicts : task = KDTranslationTask("global_multi_level", d)
    /\ config = [DefaultArgs EXCEPT !.kd_strategy = "global_multi_level",
                                    !.kd_rate = 500, !.alpha = 300]
    /\ cfg = Criterion(config)
    /\ queue = [id \in Range(task.src_lang_ids) |-> <<>>]
    /\ pushed = [id \in Range(task.src_lang_ids) |-> 0]
    /\ largest = 0
    /\ sample = NoSample
    /\ out = NoOut
    /\ calls = 0
    /\ arch = NoArch
    /\ reduced = NoReduced

NextTask ==
    \E id \in 0..(Len(Specials) + MaxSymbols), n \in 1..MaxTokens :
        PushLangFIFO(id, n)

SpecTask == InitTask /\ [][NextTask]_vars

-----------------------------------------------------------------------------
(* reduce_metrics on the logging outputs of an interval (SpecMetrics) *)

ReduceMetrics ==
    /\ reduced.status = "none"
    /\ reduced' = reduce_metrics(reduced.logging_outputs)
    /\ UNCHANGED <<config, cfg, queue, pushed, largest, sample, out, calls, arch, task>>

\* the host resets the meters of the interval
ResetMeters ==
    /\ reduced.status # "none"
    /\ reduced' = reset_meters(reduced)
    /\ UNCHANGED <<config, cfg, queue, pushed, largest, sample, out, calls, arch, task>>

InitMetrics ==
    /\ \E sa \in BOOLEAN : InitCriterion([DefaultArgs EXCEPT !.sentence_avg = sa])
    /\ arch = NoArch
    /\ task = DefaultTask
    /\ \E ra \in BOOLEAN :
          \E logs \in LoggingOutputs(cfg.sentence_avg, ra) :
              reduced = [NoReduced EXCEPT !.logging_outputs = logs]

NextMetrics == ReduceMetrics \/ ResetMeters

SpecMetrics == InitMetrics /\ [][NextMetrics]_vars

-----------------------------------------------------------------------------
(* Properties of the queues (SpecQueue) *)

\* C1: after any sequence of pushes of batches of any sizes, no history
\* queue, the single one or a language's, holds more than kd_queue_size
\* entries.
C1_QueueWithinCapacity ==
    \A q \in Queues : Len(q[1]) <= cfg.kd_queue_size

\* C2: every queue is a contiguous suffix of the sequence of all values
\* pushed to it, in push order: the oldest entries are the ones evicted and
\* the order is kept.  The i-th value pushed is i.
C2_QueueIsSuffixOfHistory ==
    \A q \in Queues :
        /\ Len(q[1]) <= q[2]
        /\ q[1] = [i \in 1..Len(q[1]) |-> q[2] - Len(q[1]) + i]

\* a queue that evicted some entries and kept others
C2_Witness ==
    \E q \in Queues : Len(q[1]) >= 2 /\ q[2] > Len(q[1]) /\ calls >= 2

-----------------------------------------------------------------------------
(* Properties of the token-level strategies (SpecKD, SpecMulti) *)

\* the last call of forward returned under batch_level
BatchLevelReturned ==
    /\ cfg.kd_strategy = "batch_level"
    /\ ~cfg.use_adaptive_weightage
    /\ out.status = "ok"

\* the student NLL of the positions of the last batch, padding zeroed
StudentNll == [i \in DOMAIN sample.tokens |->
                 IF sample.tokens[i].pad THEN 0 ELSE sample.tokens[i].nll]

DistinctNll ==
    \A i, j \in DOMAIN StudentNll : i # j => StudentNll[i] # StudentNll[j]

\* the distillation terms of the positions in S, summed
KdOver(S) ==
    SumOver([i \in DOMAIN sample.tokens |-> sample.tokens[i].kd],
            {i \in S : ~sample.tokens[i].pad})

LoggedKd == ValueOf(out.logging_output["kd_loss"])

\* C3: under batch_level, with the gate the ceil(n * kd_rate)-th largest
\* student NLL of the batch, the KD loss is the sum of the per-token KD term
\* over exactly the positions whose NLL is at or above the gate; with
\* pairwise distinct NLLs these are exactly ceil(n * kd_rate) positions.
C3_BatchLevelSumsAtOrAboveGate ==
    BatchLevelReturned =>
        LET n == Len(StudentNll)
            k == Ceil(n, cfg.kd_rate)
            gate == topk_last(StudentNll, k)
            selected == {i \in 1..n : StudentNll[i] >= gate}
        IN  /\ LoggedKd = KdOver(selected)
            /\ DistinctNll => Cardinality(selected) = k

\* a batch of distinct NLLs of which some positions are below the gate
C3_Witness ==
    /\ BatchLevelReturned
    /\ DistinctNll
    /\ Len(StudentNll) >= 2
    /\ \E i \in DOMAIN StudentNll :
          StudentNll[i] < topk_last(StudentNll, Ceil(Len(StudentNll), cfg.kd_rate))

\* the k positions of highest student NLL (NLLs pairwise distinct)
Highest(k) ==
    {i \in DOMAIN StudentNll :
        Cardinality({j \in DOMAIN StudentNll : StudentNll[j] > StudentNll[i]}) < k}

\* C4 as stated: under batch_level the ceil(n * kd_rate) positions of
\* highest student NLL are the ones excluded from the KD loss.
C4_HighestExcluded ==
    (BatchLevelReturned /\ DistinctNll) =>
        LoggedKd = KdOver(DOMAIN StudentNll
                          \ Highest(Ceil(Len(StudentNll), cfg.kd_rate)))

\* C4: under batch_level the ceil(n * kd_rate) positions of highest student
\* NLL are the ones included in the KD loss and the others are excluded; of
\* the ten positions with kd_rate 0.5, the five of lowest NLL are excluded.
C4_HighestIncluded ==
    (BatchLevelReturned /\ DistinctNll) =>
        /\ LoggedKd = KdOver(Highest(Ceil(Len(StudentNll), cfg.kd_rate)))
        /\ (sample = TenTokenSample /\ cfg.kd_rate = 500) =>
              LoggedKd = KdOver({1, 3, 6, 8, 9})

C4_Witness ==
    /\ BatchLevelReturned
    /\ sample = TenTokenSample
    /\ cfg.kd_rate = 500
    /\ LoggedKd = KdOver({1, 3, 6, 8, 9})

\* the language id of the sentences of the last batch
LangOfRow == get_lang_ids(sample.src_tokens)

\* the positions of the sentences of language id
PositionsOfLang(id) ==
    {i \in DOMAIN sample.tokens :
        LangOfRow[((i - 1) \div SampleLen(sample)) + 1] = id}

\* C5 as stated: under global_multi_level the KD loss is the sum, over the
\* languages of the batch, of the KD terms of the positions of that
\* language's sentences whose student NLL is at or above that language's
\* gate, taken from that language's queue with that language's rate.
C5_PerLanguageSelection ==
    (cfg.kd_strategy = "global_multi_level" /\ out.status = "ok") =>
        LET keys == Dedup(LangOfRow)
            rates == get_lang_kd_rates(cfg,
                        [j \in DOMAIN keys |->
                            Cardinality({b \in DOMAIN LangOfRow : LangOfRow[b] = keys[j]})])
            gate == [j \in DOMAIN keys |->
                        topk_last(queue[keys[j]],
                                  Ceil(Len(queue[keys[j]]), rates[j]))]
            selected == [j \in DOMAIN keys |->
                            {i \in PositionsOfLang(keys[j]) : StudentNll[i] >= gate[j]}]
        IN  LoggedKd = SumSeq([j \in DOMAIN keys |-> KdOver(selected[j])])

\* the configurations compute_loss rejects
InvalidConfiguration ==
    \/ cfg.kd_strategy \notin Strategies
    \/ /\ cfg.kd_strategy \in {"batch_level", "global_level", "global_multi_level"}
       /\ cfg.use_adaptive_weightage

\* C6: with the teacher's outputs in the batch, a call of forward under a
\* strategy that is none of the four, or under batch_level, global_level or
\* global_multi_level with adaptive weighting, ends in ValueError and
\* leaves the queues as they were.
C6_InvalidConfigurationRaises ==
    [][(InvalidConfiguration /\ sample'.teacher_output /\ sample'.teacher_lprobs)
          => (out'.status = "ValueError" /\ queue' = queue /\ pushed' = pushed)]_vars

C6_Witness ==
    /\ cfg.kd_strategy = "global_level"
    /\ cfg.use_adaptive_weightage
    /\ sample.teacher_output /\ sample.teacher_lprobs
    /\ out.status = "ValueError"
    /\ queue = <<>>

C10_FixedAlphaBlend ==
    (/\ cfg.kd_strategy = "word_and_seq_level"
     /\ ~cfg.use_adaptive_weightage
     /\ sample.epoch = None
     /\ out.status = "ok") =>
        /\ IsPlain(out.loss)
        /\ LoggedKd = KdOver(DOMAIN sample.tokens)
        /\ ValueOf(out.loss) = (Den - cfg.alpha) * SumSeq(StudentNll)
                               + cfg.alpha * KdOver(DOMAIN sample.tokens)
        /\ (sample = EndToEndSample /\ cfg.alpha = 300) =>
              ValueOf(out.loss) = 88 * Den

C10_Witness ==
    /\ cfg.kd_strategy = "word_and_seq_level"
    /\ cfg.alpha = 300
    /\ sample = EndToEndSample
    /\ out.status = "ok"
    /\ ValueOf(out.loss) = 88 * Den

-----------------------------------------------------------------------------
(* Properties of the representation terms (SpecRep) *)

TokenTerms == {"golden", "kd"}

\* the summands of the loss that are representation terms
RepSummands == {x \in out.loss : x.term \notin TokenTerms}

\* C8: a call of forward with epoch None or 0 computes and adds no
\* representation term, whatever the loss type: the loss is the loss of the
\* token-level strategy and the attention, decoder and representation
\* entries are logged as 0.
C8_NoEpochNoRepresentation ==
    (sample.epoch \in {None, 0} /\ out.status # "none") =>
        LET t == token_level(cfg, [queue |-> queue, pushed |-> pushed], sample)
        IN  /\ out.status = t.status
            /\ out.loss = t.loss
            /\ RepSummands = {}
            /\ out.status = "ok" =>
                  \A n \in {"attn_loss", "decoder_self_attn_loss",
                            "decoder_cross_attn_loss", "rep_loss"} :
                      out.logging_output[n] = Zero

\* epoch 0 in a mode that would add every term at epoch 1
C8_Witness ==
    /\ sample.epoch = 0
    /\ sample.attn /\ sample.teacher_attn /\ sample.teacher_decoder_attn
    /\ sample.dist = DistinctDist
    /\ cfg.loss_type = "mse" /\ cfg.decoder_kd /\ cfg.value_kd
    /\ out.status = "ok"
    /\ out.loss # Zero
    /\ out.logging_output["attn_loss"] = Zero

\* the divisors the modes document: none, 2, 50, 4 x the relation dimension
\* (value_relation.shape[2], or the dimension of the flattened relation)
DocumentedDivisors ==
    {1, HalfDiv, RegressionDiv, ValueDiv * sample.value_shape[1],
     ValueDiv * sample.value_shape[1] * sample.value_shape[2]}

\* C9 as stated: in every loss-type mode, with the maps of student and
\* teacher at hand, a call at an epoch from 1 to 100 weights every
\* representation term by rambda * decay^(epoch-1), divided or multiplied by
\* the mode's constant, and a call at an epoch above 100 adds nothing.
C9_WeightingInEveryMode ==
    (/\ out.status # "none"
     /\ sample.epoch \notin {None, 0}
     /\ cfg.loss_type \in LossTypes
     /\ sample.attn /\ sample.teacher_attn /\ sample.teacher_decoder_attn
     /\ sample.value_maps /\ sample.regressed_maps) =>
        /\ out.status = "ok"
        /\ sample.epoch > RepEpochs => RepSummands = {}
        /\ sample.epoch <= RepEpochs =>
              \A x \in RepSummands :
                  /\ x.q.rambda = 1
                  /\ x.q.decay_exp = sample.epoch - 1
                  /\ x.q.div \in DocumentedDivisors
                  /\ x.q.mul \in {1, KldUncertaintyMul}

-----------------------------------------------------------------------------
(* Properties of the presets (SpecArch) *)

\* a row of the documented table of the nine small presets
SmallRow(flag, value, enc_layers, enc_heads, dec_layers, dec_heads) ==
    [f \in {flag, "encoder_embed_dim", "encoder_ffn_embed_dim",
            "encoder_layers", "encoder_attention_heads", "decoder_layers",
            "decoder_attention_heads"} |->
        CASE f = flag -> value
          [] f = "encoder_embed_dim" -> 512
          [] f = "encoder_ffn_embed_dim" -> 1024
          [] f = "encoder_layers" -> enc_layers
          [] f = "encoder_attention_heads" -> enc_heads
          [] f = "decoder_layers" -> dec_layers
          [] f = "decoder_attention_heads" -> dec_heads]

\* a row of the documented table of the three large presets
LargeRow(embed, ffn) ==
    [f \in {"encoder_embed_dim", "encoder_ffn_embed_dim",
            "encoder_attention_heads", "encoder_normalize_before",
            "decoder_embed_dim", "decoder_ffn_embed_dim",
            "decoder_attention_heads"} |->
        CASE f \in {"encoder_embed_dim", "decoder_embed_dim"} -> embed
          [] f \in {"encoder_ffn_embed_dim", "decoder_ffn_embed_dim"} -> ffn
          [] f \in {"encoder_attention_heads", "decoder_attention_heads"} -> 16
          [] f = "encoder_normalize_before" -> False]

\* the documented defaults, preset by preset
DocumentedDefaults ==
    [transformer_small_link_8heads |-> SmallRow("link", True, 3, 8, 6, 8),
     transformer_tiny_link_8heads |-> SmallRow("link", True, 3, 8, 3, 8),
     transformer_small_link |-> SmallRow("link", True, 3, 4, 6, 4),
     transformer_2layers_8heads |-> SmallRow("link", True, 2, 8, 2, 8),
     transformer_2layers |-> SmallRow("link", True, 2, 4, 2, 4),
     transformer_3layers_regressor |-> SmallRow("regressor", True, 3, 4, 3, 4),
     transformer_2layers_regressor |-> SmallRow("regressor", True, 2, 4, 2, 4),
     transformer_tiny_link |-> SmallRow("link", True, 3, 4, 3, 4),
     transformer_tiny_nolink |-> SmallRow("link", False, 3, 4, 3, 4),
     transformer_2x |-> LargeRow(1024, 4096),
     transformer_4x |-> LargeRow(1536, 4096),
     transformer_9x |-> LargeRow(2048, 8192)]

\* C11: after any of the twelve presets ran on any configuration, every
\* hyperparameter the preset names holds the caller's value when the caller
\* supplied one and the default of the preset's row otherwise, and every
\* field the caller supplied still holds the caller's value.
C11_PresetFillsOnlyUnsetFields ==
    arch.name # "none" =>
        /\ DOMAIN Presets = DOMAIN DocumentedDefaults
        /\ \A f \in DOMAIN DocumentedDefaults[arch.name] :
              /\ f \in DOMAIN arch.args
              /\ arch.args[f] = IF f \in DOMAIN arch.given
                                THEN arch.given[f]
                                ELSE DocumentedDefaults[arch.name][f]
        /\ \A f \in DOMAIN arch.given :
              /\ f \in DOMAIN arch.args
              /\ arch.args[f] = arch.given[f]

\* a preset ran on a configuration that supplied the number of encoder
\* layers and the link flag, and nothing else the preset names
C11_Witness ==
    /\ arch.name = "transformer_small_link"
    /\ DOMAIN arch.given = {"encoder_layers", "link", "decoder_embed_dim"}
    /\ arch.given["encoder_layers"] = 7
    /\ arch.given["link"] = False
    /\ arch.args["encoder_layers"] = 7
    /\ arch.args["link"] = False
    /\ arch.args["decoder_layers"] = 6
    /\ arch.args["encoder_attention_heads"] = 4

-----------------------------------------------------------------------------
(* Properties of the task (SpecTask) *)

\* the symbol begins with the seven characters __src__
BeginsWithMarker(sym) ==
    /\ Len(sym) >= 7
    /\ <<sym[1], sym[2], sym[3], sym[4], sym[5], sym[6], sym[7]>>
           = <<"_", "_", "s", "r", "c", "_", "_">>

\* the ids of the task are those of the marked symbols, in ascending order
MarkedIdsAscending ==
    /\ \A i \in 0..(Len(task.src_dict) - 1) :
          (i \in Range(task.src_lang_ids))
              <=> BeginsWithMarker(task.src_dict[i + 1])
    /\ Range(task.src_lang_ids) \subseteq 0..(Len(task.src_dict) - 1)
    /\ \A j, k \in DOMAIN task.src_lang_ids :
          j < k => task.src_lang_ids[j] < task.src_lang_ids[k]

\* C12: src_lang_ids of the task holds exactly the ids of the dictionary's
\* symbols that start with "__src__", in ascending order, and no operation
\* changes it once the task is built.
C12_SrcLangIdsMarkedAscendingFixed ==
    /\ [](MarkedIdsAscending)
    /\ [][task' = task]_vars

\* two languages around a symbol that holds the marker but not at its
\* start, and a push into the queue of the second language
C12_Witness ==
    /\ Len(task.src_dict) = 7
    /\ task.src_dict[6] = <<"x">> \o Marker
    /\ task.src_lang_ids = <<4, 6>>
    /\ pushed[6] > 0

-----------------------------------------------------------------------------
(* Properties of reduce_metrics (SpecMetrics) *)

\* the log_scalar calls of the last reduce_metrics under a name
Logged(name) == {e \in Range(reduced.log) : e.name = name}

\* the sum of a key over the logging outputs of the state
Summed(key) == sum_of(reduced.logging_outputs, key)

\* the key of the logging outputs behind a logged name
KeyOf(name) == IF name = "nll_loss" THEN "nll_loss_student" ELSE name

\* the scalar is logged once, as the sum of its key divided by the sum of
\* the count, in bits
LoggedOver(name, count) ==
    /\ Cardinality(Logged(name)) = 1
    /\ \A e \in Logged(name) :
          /\ e.value.num = Summed(KeyOf(name))
          /\ e.value.den = Summed(count)
          /\ e.value.log2

\* C13 as stated: reduce_metrics reports loss, kd_loss, attn_loss, rep_loss,
\* golden_loss, decoder_self_attn_loss and decoder_cross_attn_loss as their
\* sums divided by the summed sample_size, and only nll_loss and
\* nll_loss_teacher divided by the summed ntokens.
C13_KdLossOverSampleSize ==
    reduced.status = "ok" =>
        /\ \A name \in {"loss", "kd_loss", "attn_loss", "rep_loss",
                        "golden_loss", "decoder_self_attn_loss",
                        "decoder_cross_attn_loss"} :
              LoggedOver(name, "sample_size")
        /\ \A name \in {"nll_loss", "nll_loss_teacher"} :
              LoggedOver(name, "ntokens")

\* C13 amended: reduce_metrics, when it returns, has reported loss,
\* attn_loss, rep_loss, golden_loss, decoder_self_attn_loss and
\* decoder_cross_attn_loss as their sums divided by the summed sample_size,
\* and kd_loss with nll_loss and nll_loss_teacher divided by the summed
\* ntokens, each converted to bits and rounded to 3 decimals.
C13_KdLossOverTokens ==
    reduced.status = "ok" =>
        /\ \A name \in {"loss", "attn_loss", "rep_loss", "golden_loss",
                        "decoder_self_attn_loss", "decoder_cross_attn_loss"} :
              LoggedOver(name, "sample_size")
        /\ \A name \in {"kd_loss", "nll_loss", "nll_loss_teacher"} :
              LoggedOver(name, "ntokens")
        /\ \A e \in Range(reduced.log) :
              e.value.log2 => e.value.round = 3

\* two logging outputs of a criterion that averages over sentences: five
\* tokens in three sentences
C13_Witness ==
    /\ reduced.status = "ok"
    /\ Len(reduced.logging_outputs) = 2
    /\ Summed("sample_size") = 3
    /\ Summed("ntokens") = 5
    /\ \E e \in Logged("kd_loss") : e.value.den = 5 /\ e.value.num = 14
    /\ \E e \in Logged("loss") : e.value.den = 3 /\ e.value.num = 7

\* what the derived accuracy metric reports: nothing when it is not
\* registered
AccuracyReported ==
    IF "accuracy" \in reduced.derived
    THEN {accuracy(reduced.meters)}
    ELSE {}

\* C14 as stated: when the summed total of the logging outputs is zero,
\* reduce_metrics does not fail and the accuracy metric is reported as
\* not-a-number.
C14_NaNWhenNoSamples ==
    (reduced.status # "none" /\ Summed("total") = 0) =>
        /\ reduced.status = "ok"
        /\ AccuracyReported = {NaN}

\* C14 amended: when the summed total of the logging outputs is zero,
\* reduce_metrics logs neither total nor n_correct and does not register the
\* accuracy metric, so no accuracy value is reported; it returns without
\* error unless the list of logging outputs is empty, when the first
\* division raises ZeroDivisionError. A registered accuracy metric reports
\* not-a-number only once the meters were reset.
C14_NoAccuracyWhenNoSamples ==
    /\ (reduced.status # "none" /\ Summed("total") = 0) =>
          /\ Logged("total") = {}
          /\ Logged("n_correct") = {}
          /\ AccuracyReported = {}
          /\ reduced.status = IF reduced.logging_outputs = <<>>
                              THEN "ZeroDivisionError"
                              ELSE "ok"
    /\ AccuracyReported = {NaN} =>
          /\ Summed("total") > 0
          /\ Logged("total") # {}
          /\ reduced.meters = NoMeters

\* reduce_metrics returned on two logging outputs without accuracy counts
C14_Witness ==
    /\ reduced.status = "ok"
    /\ Len(reduced.logging_outputs) = 2
    /\ \A i \in 1..2 : "total" \notin DOMAIN reduced.logging_outputs[i]
    /\ Logged("loss") # {}
    /\ "ppl" \in reduced.derived

-----------------------------------------------------------------------------
(* Properties of the token-level strategies, continued (SpecKD) *)

\* the student NLLs of the non-padding positions of the last batch
IsToken(x) == x # 0
NonPaddingNll == SelectSeq(StudentNll, IsToken)

\* C15: under batch_level the gate is the ceil(n * kd_rate)-th largest
\* student NLL among the n non-padding positions only, and the KD loss sums
\* the non-padding positions at or above that gate, as for the batch with
\* its padding positions removed.
C15_PaddingNotRanked ==
    BatchLevelReturned =>
        LET n == Len(NonPaddingNll)
            gate == topk_last(NonPaddingNll, Ceil(n, cfg.kd_rate))
        IN  LoggedKd = KdOver({i \in DOMAIN StudentNll :
                                  /\ ~sample.tokens[i].pad
                                  /\ StudentNll[i] >= gate})

\* a call of forward under the adaptive word_and_seq_level returned
AdaptiveReturned ==
    /\ cfg.kd_strategy = "word_and_seq_level"
    /\ cfg.use_adaptive_weightage
    /\ sample.epoch = None
    /\ out.status = "ok"

\* the weights self.alpha holds after the call, position by position
AlphaAfter == adaptive_alpha(cfg, sample)

Tokens == {i \in DOMAIN sample.tokens : ~sample.tokens[i].pad}

TeacherNll == nll_loss_teacher_of(sample.tokens)

\* the loss is the blend of the golden and the KD term under the weights
BlendedUnder(w) ==
    ValueOf(out.loss) =
        SumOver([i \in DOMAIN sample.tokens |->
                    (Den - w[i]) * StudentNll[i] + w[i] * KdOver({i})],
                DOMAIN sample.tokens)

C17_BetaDefaultsToOne ==
    cfg.beta = IF config.adaptive_smoothing = None
               THEN 1
               ELSE config.adaptive_smoothing

-----------------------------------------------------------------------------
(* Properties of the representation terms, continued (SpecRep) *)

\* a call of forward at an epoch in 1..100 on a batch that carries every
\* student and teacher map ended
AllMapsCallEnded ==
    /\ out.status # "none"
    /\ sample.epoch # None /\ sample.epoch >= 1 /\ sample.epoch <= RepEpochs
    /\ sample.attn /\ sample.teacher_attn
    /\ sample.teacher_decoder_attn /\ sample.value_maps /\ sample.regressed_maps

\* C18: in the modes mse_uncertainty and kld_uncertainty, at an epoch in
\* 1..100 with the encoder attention maps present, forward returns the
\* combined loss whatever the flags decoder_kd, self_kd and cross_kd are.
C18_UncertaintyDecoderTermsOptional ==
    (/\ AllMapsCallEnded
     /\ cfg.loss_type \in {"mse_uncertainty", "kld_uncertainty"}) =>
        /\ out.status = "ok"
        /\ \E x \in out.loss : x.term = "attn_loss" \/ sample.dist.attn = 0

\* C19: with loss_type minilm, at an epoch in 1..100 with the attention
\* maps present, the call completes without error and the loss returned
\* includes the encoder-attention term.
C19_MinilmReturnsAttentionTerm ==
    (AllMapsCallEnded /\ cfg.loss_type = "minilm") =>
        /\ out.status = "ok"
        /\ \E x \in out.loss : x.term = "attn_loss" \/ sample.dist.attn = 0

\* the auxiliary losses the last call computed: the locals of compute_loss
\* that are not None, by name
ComputedTerms ==
    IF uncertainty_entered(cfg, sample)
    THEN (IF cfg.loss_type = "kld_uncertainty"
          THEN kld_terms(cfg, sample) ELSE mse_terms(cfg, sample)).vars
    ELSE rep_terms(cfg, sample).vars

\* C20: whenever forward returns, every auxiliary loss computed for the
\* batch (encoder attention, decoder self- and cross-attention, value
\* relation, regression) is part of the loss returned and has an entry of
\* its own name, holding it, in the logging dictionary.
C20_AuxiliaryLossesAddedAndLogged ==
    out.status = "ok" =>
        \A name \in DOMAIN ComputedTerms :
            ComputedTerms[name] # Zero =>
                /\ \E x \in out.loss : x.term = name
                /\ name \in DOMAIN out.logging_output
                /\ out.logging_output[name] = ComputedTerms[name]

-----------------------------------------------------------------------------
(* The size of a queue after a push (SpecQueue) *)

\* the keys of the queues of the state; the single queue has the key None
QueueKeys ==
    IF cfg.kd_strategy = "global_multi_level" THEN DOMAIN queue ELSE {None}

QueueAt(Q, k) == IF k = None THEN Q ELSE Q[k]

\* the size the queue has after a push of t values on c entries
SizeAfterPush(c, t) ==
    IF c + t < cfg.kd_queue_size THEN c + t ELSE IF c > t THEN c ELSE t

\* the oldest entries dropped by a push of t values on c entries
EvictedByPush(c, t) ==
    IF c + t < cfg.kd_queue_size THEN 0 ELSE IF c < t THEN c ELSE t

\* a step pushed t >= 1 values to the queue of key k and the queue follows
\* the size law
PushFollowsSizeLaw(k) ==
    LET c == Len(QueueAt(queue, k))
        t == QueueAt(pushed', k) - QueueAt(pushed, k)
    IN  t > 0 =>
            /\ Len(QueueAt(queue', k)) = SizeAfterPush(c, t)
            /\ QueueAt(queue', k) =
                   SliceFrom(QueueAt(queue, k), EvictedByPush(c, t))
                   \o Fresh(QueueAt(pushed, k), t)

\* C21: a push of t values on a queue of c entries leaves c + t entries
\* when c + t < kd_queue_size and max(c, t) entries otherwise, the min(c, t)
\* oldest entries being dropped; and as long as every tensor pushed had
\* fewer than kd_queue_size values, every queue holds strictly fewer than
\* kd_queue_size entries.
C21_SizeAfterPush ==
    /\ [][\A k \in QueueKeys : PushFollowsSizeLaw(k)]_vars
    /\ [](largest < cfg.kd_queue_size =>
              \A k \in QueueKeys :
                  Len(QueueAt(queue, k)) < cfg.kd_queue_size)

\* pushes of fewer than kd_queue_size values each evicted entries of a queue
\* that now holds kd_queue_size - 1 entries
C21_Witness ==
    /\ largest < cfg.kd_queue_size
    /\ largest >= 2
    /\ \E k \in QueueKeys :
          /\ Len(QueueAt(queue, k)) = cfg.kd_queue_size - 1
          /\ QueueAt(pushed, k) > cfg.kd_queue_size

-----------------------------------------------------------------------------
(* The batch in the queue under global_level (SpecGlobal) *)

\* the last n entries of q
LastEntries(q, n) == SubSeq(q, Len(q) - n + 1, Len(q))

\* the gate of global_level over the queue q
GlobalGate(q) == topk_last(q, Ceil(Len(q), cfg.kd_rate))

\* C22: after every push the last entries of the queue are the values of
\* the batch just pushed, in their order, whatever was evicted; under
\* global_level the gate is taken over a queue that holds the whole batch,
\* and the KD loss sums the positions of the batch at or above that gate.
C22_BatchIsQueueSuffix ==
    [][pushed' # pushed =>
          LET nll == StudentNll'
              n == Len(nll)
          IN  /\ pushed' = pushed + n
              /\ Len(queue') >= n
              /\ LastEntries(queue', n) = nll
              /\ out'.status = "ok" =>
                     LoggedKd' = SumOver(
                         kd_loss_of(sample'.tokens),
                         {i \in 1..n : nll[i] >= GlobalGate(queue')})]_vars

\* a second batch was pushed on a queue that evicted entries and kept
\* others: the queue is longer than the batch and ends with it
C22_Witness ==
    /\ cfg.kd_strategy = "global_level"
    /\ out.status = "ok"
    /\ calls = 2
    /\ pushed > Len(queue)
    /\ Len(queue) > Len(StudentNll)
    /\ LastEntries(queue, Len(StudentNll)) = StudentNll

-----------------------------------------------------------------------------
(* The queues of the other languages (SpecTask) *)

\* the languages whose queue or count of pushed values a step changed
LanguagesChanged ==
    {k \in DOMAIN queue : queue'[k] # queue[k] \/ pushed'[k] # pushed[k]}

\* C23: under global_multi_level a push to the queue of one language
\* leaves the queues of all other languages as they were, and the keys of
\* the queues are the task's src_lang_ids in every state: no key is added
\* or removed.
C23_PushChangesOneLanguage ==
    /\ [](DOMAIN queue = Range(task.src_lang_ids))
    /\ [][/\ DOMAIN queue' = DOMAIN queue
          /\ \E id \in DOMAIN queue :
                /\ LanguagesChanged = {id}
                /\ queue'[id] =
                      push_to_FIFO_queue(
                          queue[id],
                          Fresh(pushed[id], pushed'[id] - pushed[id]),
                          cfg.kd_queue_size)]_vars

\* two languages, each with values in its queue, one of which evicted
\* entries while the other kept all it was pushed
C23_Witness ==
    \E a, b \in DOMAIN queue :
        /\ a # b
        /\ pushed[a] > Len(queue[a])
        /\ queue[a] # <<>>
        /\ queue[b] = Fresh(0, pushed[b])
        /\ queue[b] # <<>>

-----------------------------------------------------------------------------
(* A sentence of an unknown language under global_multi_level               *)
(* (SpecLanguages)                                                         *)

\* the first source row of the batch b whose first non-padding token has no
\* queue, 0 when every row has one
FirstUnknownRow(b) ==
    LET ids == get_lang_ids(b.src_tokens)
        unknown == {r \in DOMAIN ids : ids[r] \notin Range(src_lang_ids)}
    IN  IF unknown = {} THEN 0
        ELSE CHOOSE r \in unknown : \A u \in unknown : r <= u

\* the languages of the rows of b before its first unknown row
LanguagesBefore(b) ==
    LET ids == get_lang_ids(b.src_tokens)
    IN  {ids[r] : r \in 1..(FirstUnknownRow(b) - 1)}

\* the student NLLs of the rows of b of language k, row after row
NllOfLanguage(b, k) ==
    LET ids == get_lang_ids(b.src_tokens)
    IN  FlattenRows(nll_loss_of(b.tokens), SampleLen(b), RowsWith(ids, k, 1))

\* C24: under global_multi_level a batch with a sentence whose first
\* non-padding source token is not in src_lang_ids makes forward fail with
\* KeyError; no queue is created for the id, the languages that appear in
\* the batch before the unknown id have all their values of the batch
\* pushed, and the queues of the other languages are as before the call.
C24_UnknownLanguageFailsHalfway ==
    [][(calls' # calls /\ FirstUnknownRow(sample') > 0) =>
          /\ out'.status = "KeyError"
          /\ DOMAIN queue' = Range(src_lang_ids)
          /\ \A k \in LanguagesBefore(sample') :
                LET t == NllOfLanguage(sample', k)
                IN  /\ pushed'[k] = pushed[k] + Len(t)
                    /\ queue'[k] = push_to_FIFO_queue(queue[k], t,
                                                      cfg.kd_queue_size)
          /\ \A k \in DOMAIN queue \ LanguagesBefore(sample') :
                queue'[k] = queue[k] /\ pushed'[k] = pushed[k]]_vars

\* a call failed on a batch whose first row is of a known language and
\* whose second row is not: the values of the first row are in the queue
C24_Witness ==
    /\ out.status = "KeyError"
    /\ FirstUnknownRow(sample) = 2
    /\ \E k \in LanguagesBefore(sample) :
          /\ pushed[k] > 0
          /\ queue[k] # <<>>
          /\ LastEntries(queue[k], Len(NllOfLanguage(sample, k)))
                = NllOfLanguage(sample, k)

-----------------------------------------------------------------------------
(* A batch without teacher_output (SpecKD) *)

=============================================================================
